---- MODULE Spec2Model ----
(***************************************************************************)
(* Trading state machine of prediction_market_games.                       *)
(*                                                                         *)
(* Five specifications share the module:                                   *)
(*   Spec      the paper trading bot  (src/bot/real-trading-bot.ts,        *)
(*             lines 1080-1704) together with the state file it persists   *)
(*             and the endpoints that read and reset that file;            *)
(*   RealSpec  the live trading bot   (src/bot/real-trading-bot.ts,        *)
(*             lines 1-677);                                               *)
(*   RealSeqSpec  the live trading bot when no two cycles overlap;         *)
(*   FnSpec    calls of shouldEnterPosition, calculatePositionSize,        *)
(*             calculateEdge and runBotCycle on grids of arguments;        *)
(*   PipeSpec  GET /api/crypto-arbitrage (src/app/api/crypto-arbitrage/    *)
(*             route.ts) and the bot cycle that consumes its answer.       *)
(*                                                                         *)
(* Numbers.  Probabilities, prices and edges are integers in basis points  *)
(* (ProbOne = 1.0).  Paper money is counted in 1/300 of a dollar, live     *)
(* money in 1/1000 of a dollar, so that on the grids used below every      *)
(* division the code performs is exact; the IEEE rounding error of the     *)
(* JavaScript doubles is not modelled.  Dates are whole days.              *)
(***************************************************************************)
EXTENDS Integers, Sequences, FiniteSets, TLC

VARIABLES
  pc,            \* paper process: "init" | "running" | "exiting" | "exited"
  state,         \* paper bot: the in-memory BotState owned by startBot
  file,          \* data/bot-state.json as seen by any process
  writing,       \* writeFileSync in progress: None or Some(document)
  inflight,      \* number of runBotCycle calls awaiting fetchArbitrageData
  timerSet,      \* setInterval has been called
  cyclesDone,    \* runBotCycle calls that have returned
  now,           \* wall clock, in days
  rpc,           \* live process: "init" | "running" | "exited"
  rstate,        \* live bot: the in-memory RealBotState owned by startBot
  rfile,         \* data/real-bot-state.json
  rcycles,       \* live bot: the runBotCycle calls in flight
  rtimerSet,     \* live bot: setInterval has been called
  rstarted,      \* live bot: runBotCycle calls so far
  call,          \* a call of a pure function: its arguments and its result
  pipe           \* GET /api/crypto-arbitrage: the request being served

paperVars == <<pc, state, file, writing, inflight, timerSet, cyclesDone, now>>
realVars  == <<rpc, rstate, rfile, rcycles, rtimerSet, rstarted>>
auxVars   == <<call, pipe>>
vars      == <<pc, state, file, writing, inflight, timerSet, cyclesDone, now,
               rpc, rstate, rfile, rcycles, rtimerSet, rstarted, call, pipe>>

----------------------------------------------------------------------------
(* Bounds of the model *)

MaxOpps     == 2   \* longest opportunity list a fetch returns
MaxCycles   == 3   \* runBotCycle calls per run of the paper bot
MaxInflight == 2   \* paper cycles awaiting their fetch at the same time
MaxDay      == 2   \* last day the clock reaches
MaxRealCycles == 3 \* runBotCycle calls per run of the live bot
MaxRaw      == 3   \* longest market list the Polymarket API returns
MaxLimit    == 2   \* largest limit parameter of a pipeline request

----------------------------------------------------------------------------
(* Number representation *)

ProbOne == 100 * 100          \* probability 1.0 in basis points
Dollar  == 3 * 100            \* one dollar of paper money
RDollar == 10 * 100           \* one dollar of live money

None    == << >>              \* an absent optional value (undefined)
Some(v) == << v >>

Abs(x)    == IF x < 0 THEN -x ELSE x
MinOf(a, b) == IF a < b THEN a ELSE b
MaxOf(a, b) == IF a > b THEN a ELSE b

\* a ?? b
Coalesce(a, b) == IF a # None THEN a[1] ELSE b

RECURSIVE SumSize(_)
SumSize(ps) == IF ps = << >> THEN 0 ELSE ps[1].size + SumSize(Tail(ps))

----------------------------------------------------------------------------
(* Paper bot: configuration and state *)

CONFIG ==
  [ startingBalance  |-> 1000 * Dollar,
    minEdgeToEnter   |-> 500,
    maxEdgeToExit    |-> 500,
    basePositionSize |-> 25 * Dollar,
    edgeMultiplier   |-> 500 * Dollar,
    maxPositionSize  |-> 100 * Dollar,
    maxTotalExposure |-> 500 * Dollar,
    minTimeToExpiry  |-> 1,
    pollIntervalMs   |-> 60000 ]

\* the state loadState returns when there is no readable file
InitialState ==
  [ startingBalance |-> CONFIG.startingBalance,
    currentBalance  |-> CONFIG.startingBalance,
    totalPnl        |-> 0,
    openPositions   |-> << >>,
    closedPositions |-> << >>,
    trades          |-> << >>,
    isRunning       |-> TRUE,
    lastUpdate      |-> 0,
    lastError       |-> None,
    totalTrades     |-> 0,
    winningTrades   |-> 0,
    losingTrades    |-> 0,
    winRate         |-> <<0, 1>> ]

\* the document POST /api/bot/reset writes
ResetState(startingBalance) ==
  [ InitialState EXCEPT !.startingBalance = startingBalance,
                        !.currentBalance  = startingBalance,
                        !.isRunning       = FALSE ]

\* JSON.stringify drops the properties whose value is undefined
Stringify(s) ==
  IF s.lastError = None
    THEN [ k \in DOMAIN s \ {"lastError"} |-> s[k] ]
    ELSE s

\* JSON.parse: a property that is not in the document reads as undefined
Parse(doc) ==
  IF "lastError" \in DOMAIN doc
    THEN doc
    ELSE [ k \in DOMAIN doc \cup {"lastError"} |->
             IF k = "lastError" THEN None ELSE doc[k] ]

\* contents of a state file
Absent      == [ kind |-> "absent" ]
Corrupt     == [ kind |-> "corrupt" ]   \* exists, not valid JSON
Truncated   == [ kind |-> "empty" ]     \* opened with O_TRUNC, nothing written yet
Document(d) == [ kind |-> "doc", doc |-> d ]

loadState(f) ==
  IF f.kind = "doc" THEN Parse(f.doc) ELSE InitialState

----------------------------------------------------------------------------
(* Paper bot: trading logic *)

\* a variant without the cap at maxPositionSize
calculatePositionSizeUncapped(edge, config) ==
  config.basePositionSize + (Abs(edge) * config.edgeMultiplier) \div ProbOne

calculatePositionSize(edge, config) ==
  LET absEdge == Abs(edge)
      size    == config.basePositionSize + (absEdge * config.edgeMultiplier) \div ProbOne
  IN  MinOf(size, config.maxPositionSize)

getTotalExposure(positions) == SumSize(positions)

EffectiveEdge(opp) == Coalesce(opp.edgeVsDeribit, opp.edgeVsZscore)

\* a variant that falls back on the first opportunity of the list
FindOppOrFirst(opps, marketId) ==
  LET hits == { i \in 1..Len(opps) : opps[i].id = marketId }
  IN  IF hits = {} THEN (IF opps = << >> THEN None ELSE Some(opps[1]))
      ELSE Some(opps[CHOOSE i \in hits : \A j \in hits : i <= j])

\* the first opportunity of the list for a market, as Array.find returns it
FindOpp(opps, marketId) ==
  LET hits == { i \in 1..Len(opps) : opps[i].id = marketId }
  IN  IF hits = {} THEN None
      ELSE Some(opps[CHOOSE i \in hits : \A j \in hits : i <= j])

\* a variant that never finds the market among the open positions
HasPositionNever(positions, marketId) == FALSE

HasPosition(positions, marketId) ==
  \E i \in 1..Len(positions) : positions[i].marketId = marketId

\* a variant that lets any size pass the balance check
InsufficientBalanceNever(positionSize, st) == FALSE

\* the balance check of shouldEnterPosition
InsufficientBalance(positionSize, st) == positionSize > st.currentBalance

shouldEnterPosition(opp, st, config, today) ==
  LET edge      == EffectiveEdge(opp)
      absEdge   == Abs(edge)
      polyPrice == opp.polymarketProb
      modelProb == Coalesce(opp.deribitProb, opp.zscoreProb)
      daysToExpiry == opp.expiryDate - today
      currentExposure == getTotalExposure(st.openPositions)
      positionSize    == calculatePositionSize(edge, config)
      No  == [ shouldEnter |-> FALSE, side |-> "long", edge |-> edge ]
  IN  IF polyPrice > 9500 THEN No
      ELSE IF polyPrice < 500 THEN No
      ELSE IF /\ opp.spot # 0 /\ opp.targetPrice # 0 /\ opp.betType = "one-touch"
              /\ \/ opp.direction = "below" /\ opp.spot <= opp.targetPrice
                 \/ opp.direction = "above" /\ opp.spot >= opp.targetPrice
           THEN No
      ELSE IF modelProb # 0 /\ modelProb > 9000 /\ polyPrice > 9000 THEN No
      ELSE IF modelProb # 0 /\ modelProb < 1000 /\ polyPrice < 1000 THEN No
      ELSE IF absEdge < config.minEdgeToEnter THEN No
      ELSE IF daysToExpiry < config.minTimeToExpiry THEN No
      ELSE IF HasPosition(st.openPositions, opp.id) THEN No
      ELSE IF currentExposure + positionSize > config.maxTotalExposure THEN No
      ELSE IF InsufficientBalance(positionSize, st) THEN No
      ELSE [ shouldEnter |-> TRUE,
             side        |-> IF edge > 0 THEN "short" ELSE "long",
             edge        |-> edge ]

shouldExitPosition(position, oppOpt, config, today) ==
  IF oppOpt = None
    THEN IF position.expiryDate < today
           THEN [ shouldExit |-> TRUE, reason |-> "expired",
                  currentPrice |-> position.currentPrice, currentEdge |-> 0 ]
           ELSE [ shouldExit |-> FALSE, reason |-> "",
                  currentPrice |-> position.currentPrice,
                  currentEdge  |-> position.currentEdge ]
    ELSE LET opp          == oppOpt[1]
             currentPrice == opp.polymarketProb
             currentEdge  == EffectiveEdge(opp)
             absEdge      == Abs(currentEdge)
             newSide      == IF currentEdge > 0 THEN "short" ELSE "long"
         IN  IF absEdge < config.maxEdgeToExit
               THEN [ shouldExit |-> TRUE, reason |-> "edge_aligned",
                      currentPrice |-> currentPrice, currentEdge |-> currentEdge ]
             ELSE IF newSide # position.side /\ absEdge >= config.minEdgeToEnter
               THEN [ shouldExit |-> TRUE, reason |-> "edge_aligned",
                      currentPrice |-> currentPrice, currentEdge |-> currentEdge ]
             ELSE [ shouldExit |-> FALSE, reason |-> "",
                    currentPrice |-> currentPrice, currentEdge |-> currentEdge ]

\* a variant that counts every share twice
PnlDoubled(shares, a, b) == (2 * shares * (a - b)) \div ProbOne

\* a variant with the price difference taken the other way round
PnlReversed(shares, a, b) == (shares * (b - a)) \div ProbOne

\* shares * (a - b), the product of a share count and a price difference
PnlOf(shares, a, b) == (shares * (a - b)) \div ProbOne

\* a variant that gives every position the same id
FreshIdSame(st) == 1

\* the id of a new position: `pos_${Date.now()}_${random}`, never used before
FreshId(st) == Len(st.trades) + 1

\* openPosition followed by the push of runBotCycle
openPosition(opp, side, edge, st, config) ==
  LET size           == calculatePositionSize(edge, config)
      entryPrice     == opp.polymarketProb
      effectivePrice == IF side = "long" THEN entryPrice ELSE ProbOne - entryPrice
      shares         == (size * ProbOne) \div effectivePrice
      position ==
        [ id |-> FreshId(st), marketId |-> opp.id, expiryDate |-> opp.expiryDate,
          side |-> side, entryPrice |-> entryPrice, size |-> size,
          shares |-> shares, entryEdge |-> edge,
          currentPrice |-> entryPrice, currentEdge |-> edge,
          unrealizedPnl |-> 0, status |-> "open", closeReason |-> "none",
          closePrice |-> None, realizedPnl |-> None ]
      trade ==
        [ positionId |-> position.id, marketId |-> opp.id, action |-> "open",
          side |-> side, price |-> entryPrice, size |-> size, shares |-> shares,
          edge |-> edge, pnl |-> None ]
  IN  [ st EXCEPT !.trades         = Append(@, trade),
                  !.totalTrades    = @ + 1,
                  !.currentBalance = @ - size,
                  !.openPositions  = Append(@, position) ]

\* a variant that returns the stake without the profit or loss
CreditStakeOnly(size, pnl) == size

\* what closePosition adds to currentBalance
CreditOnClose(size, pnl) == size + pnl

\* a variant that leaves the closed position among the open ones
RemoveByIdKeep(positions, id) == positions

\* state.openPositions.filter(p => p.id !== position.id)
RemoveById(positions, id) == SelectSeq(positions, LAMBDA p : p.id # id)

closePosition(position, currentPrice, currentEdge, reason, st) ==
  LET pnl == IF position.side = "long"
               THEN PnlOf(position.shares, currentPrice, position.entryPrice)
               ELSE PnlOf(position.shares, position.entryPrice, currentPrice)
      closed ==
        [ position EXCEPT !.status = "closed", !.closeReason = reason,
                          !.closePrice = Some(currentPrice),
                          !.realizedPnl = Some(pnl),
                          !.currentPrice = currentPrice,
                          !.currentEdge = currentEdge ]
      trade ==
        [ positionId |-> position.id, marketId |-> position.marketId,
          action |-> "close", side |-> position.side, price |-> currentPrice,
          size |-> position.size, shares |-> position.shares,
          edge |-> currentEdge, pnl |-> Some(pnl) ]
      wins   == IF pnl > 0 THEN st.winningTrades + 1 ELSE st.winningTrades
      losses == IF pnl > 0 THEN st.losingTrades
                ELSE IF pnl < 0 THEN st.losingTrades + 1 ELSE st.losingTrades
  IN  [ st EXCEPT !.trades          = Append(@, trade),
                  !.totalTrades     = @ + 1,
                  !.currentBalance  = @ + CreditOnClose(position.size, pnl),
                  !.totalPnl        = @ + pnl,
                  !.winningTrades   = wins,
                  !.losingTrades    = losses,
                  !.winRate         = <<wins, MaxOf(1, wins + losses)>>,
                  !.openPositions   = RemoveById(@, position.id),
                  !.closedPositions = Append(@, closed) ]

updateOpenPositions(opps, st) ==
  LET refresh(position) ==
        LET o == FindOpp(opps, position.marketId)
        IN  IF o = None THEN position
            ELSE LET price == o[1].polymarketProb
                 IN [ position EXCEPT
                        !.currentPrice  = price,
                        !.currentEdge   = EffectiveEdge(o[1]),
                        !.unrealizedPnl =
                           IF position.side = "long"
                             THEN PnlOf(position.shares, price, position.entryPrice)
                             ELSE PnlOf(position.shares, position.entryPrice, price) ]
  IN  [ st EXCEPT !.openPositions =
          [ i \in 1..Len(st.openPositions) |-> refresh(st.openPositions[i]) ] ]

\* the exit loop of runBotCycle over the copy [...state.openPositions]
RECURSIVE ExitLoop(_, _, _, _, _)
ExitLoop(snapshot, i, opps, st, today) ==
  IF i > Len(snapshot) THEN st
  ELSE LET position  == snapshot[i]
           exitCheck == shouldExitPosition(position, FindOpp(opps, position.marketId),
                                           CONFIG, today)
       IN  ExitLoop(snapshot, i + 1, opps,
                    IF exitCheck.shouldExit
                      THEN closePosition(position, exitCheck.currentPrice,
                                         exitCheck.currentEdge, exitCheck.reason, st)
                      ELSE st,
                    today)

\* the entry loop of runBotCycle
RECURSIVE EntryLoop(_, _, _, _)
EntryLoop(opps, i, st, today) ==
  IF i > Len(opps) THEN st
  ELSE LET opp        == opps[i]
           entryCheck == shouldEnterPosition(opp, st, CONFIG, today)
       IN  EntryLoop(opps, i + 1,
                     IF entryCheck.shouldEnter
                       THEN openPosition(opp, entryCheck.side, entryCheck.edge, st, CONFIG)
                       ELSE st,
                     today)

\* a variant that looks for entries before it refreshes and exits
CycleBodyEntriesFirst(opps, st, today, stamp) ==
  LET entered   == EntryLoop(opps, 1, st, today)
      refreshed == updateOpenPositions(opps, entered)
      exited    == ExitLoop(refreshed.openPositions, 1, opps, refreshed, today)
  IN  [ exited EXCEPT !.lastUpdate = stamp, !.lastError = None ]

\* the body of runBotCycle for a non-empty opportunity list, before saveState
CycleBody(opps, st, today, stamp) ==
  LET refreshed == updateOpenPositions(opps, st)
      exited    == ExitLoop(refreshed.openPositions, 1, opps, refreshed, today)
      entered   == EntryLoop(opps, 1, exited, today)
  IN  [ entered EXCEPT !.lastUpdate = stamp, !.lastError = None ]

----------------------------------------------------------------------------
(* Paper bot: what fetchArbitrageData can return *)

Markets == { "m1", "m2" }

\* the claim of a market is fixed: m1 is a binary bet on a symbol without an
\* options surface, m2 a one-touch bet on a symbol with one
ClaimOf(m) ==
  IF m = "m1"
    THEN [ betType |-> "binary",    direction |-> "above", targetPrice |-> 2,
           expiryDate |-> 1, hasDeribit |-> FALSE ]
    ELSE [ betType |-> "one-touch", direction |-> "above", targetPrice |-> 2,
           expiryDate |-> 3, hasDeribit |-> TRUE ]

Probs == { 0, 2500, ProbOne }
Edges == { -2000, 0, 500 }
Spots == { 1 }

\* an opportunity as the pipeline builds it: edge = polymarketProb - modelProb
MkOpp(m, p, e, spot) ==
  LET c == ClaimOf(m)
  IN  [ id |-> m, polymarketProb |-> p, spot |-> spot,
        betType |-> c.betType, direction |-> c.direction,
        targetPrice |-> c.targetPrice, expiryDate |-> c.expiryDate,
        zscoreProb    |-> IF c.hasDeribit THEN p ELSE p - e,
        edgeVsZscore  |-> IF c.hasDeribit THEN 0 ELSE e,
        deribitProb   |-> IF c.hasDeribit THEN Some(p - e) ELSE None,
        edgeVsDeribit |-> IF c.hasDeribit THEN Some(e) ELSE None ]

\* the model probability polymarketProb - edge is a probability
Quotes == { q \in Probs \X Edges : q[1] - q[2] >= 0 /\ q[1] - q[2] <= ProbOne }

Opps == { MkOpp(m, q[1], q[2], s) : m \in Markets, q \in Quotes, s \in Spots }

OppLists == UNION { [ 1..n -> Opps ] : n \in 1..MaxOpps }

ResetBalances == { 100 * Dollar }

----------------------------------------------------------------------------
(* Paper bot: the process *)

PaperInit ==
  /\ pc = "init"
  /\ state = InitialState
  /\ file \in { Absent, Corrupt }
               \cup { Document(Stringify(ResetState(b))) : b \in ResetBalances }
  /\ writing = None
  /\ inflight = 0
  /\ timerSet = FALSE
  /\ cyclesDone = 0
  /\ now = 0

PaperIdle ==
  /\ pc = "off"
  /\ state = InitialState
  /\ file = Absent
  /\ writing = None
  /\ inflight = 0
  /\ timerSet = FALSE
  /\ cyclesDone = 0
  /\ now = 0

\* the bot's event loop is free: no synchronous write is in progress
Free == pc = "running" /\ writing = None

\* startBot up to the first await: loadState, then runBotCycle until its fetch
StartBot ==
  /\ pc = "init"
  /\ pc' = "running"
  /\ state' = [ loadState(file) EXCEPT !.isRunning = TRUE ]
  /\ inflight' = 1
  /\ UNCHANGED <<file, writing, timerSet, cyclesDone, now>>
  /\ UNCHANGED <<realVars, auxVars>>

\* the setInterval callback: it calls runBotCycle whatever is in flight
TimerTick ==
  /\ Free
  /\ timerSet
  /\ inflight < MaxInflight
  /\ cyclesDone + inflight < MaxCycles
  /\ inflight' = inflight + 1
  /\ UNCHANGED <<pc, state, file, writing, timerSet, cyclesDone, now>>
  /\ UNCHANGED <<realVars, auxVars>>

\* runBotCycle when the fetch gave no opportunity (or failed): the return
\* inside the try block leaves the function
CycleEmpty ==
  /\ Free
  /\ inflight > 0
  /\ inflight' = inflight - 1
  /\ cyclesDone' = cyclesDone + 1
  /\ timerSet' = TRUE
  /\ UNCHANGED <<pc, state, file, writing, now>>
  /\ UNCHANGED <<realVars, auxVars>>

\* runBotCycle when the fetch gave opps: refresh, exits, entries, saveState.
\* writeFileSync truncates the file, then writes the document (FinishWrite).
CycleRun(opps) ==
  /\ Free
  /\ inflight > 0
  /\ inflight' = inflight - 1
  /\ cyclesDone' = cyclesDone + 1
  /\ timerSet' = TRUE
  /\ state' = CycleBody(opps, state, now, cyclesDone + 1)
  /\ file' = Truncated
  /\ writing' = Some(Stringify(state'))
  /\ UNCHANGED <<pc, now>>
  /\ UNCHANGED <<realVars, auxVars>>

\* the write of writeFileSync reaches the file; after the signal handler's
\* save, process.exit(0) follows and ends the pending cycles and the timer
FinishWrite ==
  /\ writing # None
  /\ file' = Document(writing[1])
  /\ writing' = None
  /\ IF pc = "exiting"
       THEN pc' = "exited" /\ inflight' = 0 /\ timerSet' = FALSE
       ELSE UNCHANGED <<pc, inflight, timerSet>>
  /\ UNCHANGED <<state, cyclesDone, now>>
  /\ UNCHANGED <<realVars, auxVars>>

\* SIGINT / SIGTERM: loadState from the file, isRunning = false, saveState, exit
Signal ==
  /\ Free
  /\ pc' = "exiting"
  /\ file' = Truncated
  /\ writing' = Some(Stringify([ loadState(file) EXCEPT !.isRunning = FALSE ]))
  /\ UNCHANGED <<state, inflight, timerSet, cyclesDone, now>>
  /\ UNCHANGED <<realVars, auxVars>>

\* loadState of GET /api/bot/status, which runs in the web server process at
\* any moment: the document, or null when the file is absent or does not parse
StatusLoadState(f) ==
  IF f.kind = "doc" THEN Some(Parse(f.doc)) ELSE None

DayPasses ==
  /\ pc \in { "init", "running" }
  /\ now < MaxDay
  /\ now' = now + 1
  /\ UNCHANGED <<pc, state, file, writing, inflight, timerSet, cyclesDone>>
  /\ UNCHANGED <<realVars, auxVars>>

\* POST /api/bot/reset, served by the web server process while the bot runs:
\* it writes a fresh state over the state file; the bot's memory is not told
ResetPost(startingBalance) ==
  /\ pc = "running"
  /\ writing = None
  /\ file' = Document(Stringify(ResetState(startingBalance)))
  /\ UNCHANGED <<pc, state, writing, inflight, timerSet, cyclesDone, now>>
  /\ UNCHANGED <<realVars, auxVars>>

Next ==
  \/ StartBot
  \/ TimerTick
  \/ CycleEmpty
  \/ \E opps \in OppLists : CycleRun(opps)
  \/ FinishWrite
  \/ Signal
  \/ DayPasses
  \/ \E b \in ResetBalances : ResetPost(b)


----------------------------------------------------------------------------
(* Live bot: configuration, state and trading logic *)

RCONFIG ==
  [ maxTotalExposure |-> 10 * RDollar,
    minEdgeToEnter   |-> 500,
    maxEdgeToExit    |-> 500,
    basePositionSize |-> 1 * RDollar,
    edgeMultiplier   |-> 20 * RDollar,
    maxPositionSize  |-> 5 * RDollar,
    minTimeToExpiry  |-> 1,
    dryRun           |-> FALSE ]

\* the least amount the live bot trades, $0.50
MinTrade == RDollar \div 2

RealInitialState ==
  [ maxExposure     |-> RCONFIG.maxTotalExposure,
    currentExposure |-> 0,
    totalPnl        |-> 0,
    openPositions   |-> << >>,
    closedPositions |-> << >>,
    isRunning       |-> TRUE,
    lastUpdate      |-> 0,
    lastError       |-> None ]

loadStateReal(f) ==
  IF f.kind = "doc" THEN Parse(f.doc) ELSE RealInitialState

\* Math.round(size * 100) / 100 on an amount in 1/1000 dollar
RoundToCents(size) == ((size + 5) \div 10) * 10

calculatePositionSizeReal(edge, config, remainingExposure) ==
  LET absEdge == Abs(edge)
      size    == config.basePositionSize + (absEdge * config.edgeMultiplier) \div ProbOne
      capped  == MinOf(MinOf(size, config.maxPositionSize), remainingExposure)
  IN  RoundToCents(capped)

shouldEnterPositionReal(opp, st, config, today) ==
  LET edge      == EffectiveEdge(opp)
      absEdge   == Abs(edge)
      polyPrice == opp.polymarketProb
      daysToExpiry == opp.expiryDate - today
      remainingExposure == config.maxTotalExposure - st.currentExposure
      size == calculatePositionSizeReal(edge, config, remainingExposure)
      No   == [ shouldEnter |-> FALSE, side |-> "long", edge |-> edge, size |-> 0 ]
  IN  IF polyPrice > 9900 THEN No
      ELSE IF polyPrice < 100 THEN No
      ELSE IF /\ opp.spot # 0 /\ opp.targetPrice # 0 /\ opp.betType = "one-touch"
              /\ \/ opp.direction = "below" /\ opp.spot <= opp.targetPrice
                 \/ opp.direction = "above" /\ opp.spot >= opp.targetPrice
           THEN No
      ELSE IF absEdge < config.minEdgeToEnter THEN No
      ELSE IF daysToExpiry < config.minTimeToExpiry THEN No
      ELSE IF HasPosition(st.openPositions, opp.id) THEN No
      ELSE IF remainingExposure < MinTrade THEN No
      ELSE IF size < MinTrade THEN No
      ELSE [ shouldEnter |-> TRUE,
             side        |-> IF edge > 0 THEN "short" ELSE "long",
             edge        |-> edge,
             size        |-> size ]

\* what executeOrder resolves to: a failure (no wallet, no token ids, no order
\* book, a rejected order, an exception) or a fill at the best ask of the book
Asks == { 4000 }
OrderResults ==
  { [ success |-> FALSE, filledPrice |-> 0 ] }
    \cup { [ success |-> TRUE, filledPrice |-> a ] : a \in Asks }

\* a variant that forgets to add the size to currentExposure
PushPositionOnly(opp, check, result, st) ==
  LET filledPrice == IF result.filledPrice # 0 THEN result.filledPrice
                     ELSE opp.polymarketProb
      position ==
        [ id |-> Len(st.openPositions) + 1, marketId |-> opp.id,
          side |-> check.side, entryPrice |-> filledPrice, size |-> check.size,
          shares |-> (check.size * ProbOne) \div filledPrice,
          entryEdge |-> check.edge, status |-> "open" ]
  IN  [ st EXCEPT !.openPositions = Append(@, position) ]

\* the block of runBotCycle after a successful executeOrder
PushPosition(opp, check, result, st) ==
  LET filledPrice == IF result.filledPrice # 0 THEN result.filledPrice
                     ELSE opp.polymarketProb
      position ==
        [ id |-> Len(st.openPositions) + 1, marketId |-> opp.id,
          side |-> check.side, entryPrice |-> filledPrice, size |-> check.size,
          shares |-> (check.size * ProbOne) \div filledPrice,
          entryEdge |-> check.edge, status |-> "open" ]
  IN  [ st EXCEPT !.openPositions   = Append(@, position),
                  !.currentExposure = @ + check.size ]

\* a variant that records a position whatever executeOrder answered
AfterOrderAlways(opp, check, result, st) == PushPosition(opp, check, result, st)

\* `if (result.success) { ... }`: a failed order leaves the state as it was
AfterOrder(opp, check, result, st) ==
  IF result.success THEN PushPosition(opp, check, result, st) ELSE st

\* runBotCycle from opportunity i on, up to its next await: the call stops at
\* the executeOrder of the first opportunity that passes the entry check
RECURSIVE Advance(_, _, _, _)
Advance(opps, i, st, today) ==
  IF i > Len(opps)
    THEN [ at |-> "end", opps |-> opps, i |-> i, check |-> None ]
    ELSE LET check == shouldEnterPositionReal(opps[i], st, RCONFIG, today)
         IN  IF check.shouldEnter
               THEN [ at |-> "order", opps |-> opps, i |-> i, check |-> Some(check) ]
               ELSE Advance(opps, i + 1, st, today)

RQuotes == { <<4000, 2000>>, <<4000, -512>> }
ROpps   == { MkOpp(m, q[1], q[2], s) : m \in Markets, q \in RQuotes, s \in Spots }
ROppLists == UNION { [ 1..n -> ROpps ] : n \in 1..MaxOpps }

Fetching == [ at |-> "fetch", opps |-> << >>, i |-> 0, check |-> None ]

RemoveAt(seq, k) == [ j \in 1..(Len(seq) - 1) |-> IF j < k THEN seq[j] ELSE seq[j + 1] ]

----------------------------------------------------------------------------
(* Live bot: the process *)

RealInit ==
  /\ rpc = "init"
  /\ rstate = RealInitialState
  /\ rfile = Absent
  /\ rcycles = << >>
  /\ rtimerSet = FALSE
  /\ rstarted = 0

\* startBot up to the first await
RStartBot ==
  /\ rpc = "init"
  /\ rpc' = "running"
  /\ rstate' = [ loadStateReal(rfile) EXCEPT !.isRunning = TRUE ]
  /\ rcycles' = << Fetching >>
  /\ rstarted' = 1
  /\ UNCHANGED <<rfile, rtimerSet>>
  /\ UNCHANGED <<paperVars, auxVars>>

\* the setInterval callback
RTimerTick ==
  /\ rpc = "running"
  /\ rtimerSet
  /\ rstarted < MaxRealCycles
  /\ rcycles' = Append(rcycles, Fetching)
  /\ rstarted' = rstarted + 1
  /\ UNCHANGED <<rpc, rstate, rfile, rtimerSet>>
  /\ UNCHANGED <<paperVars, auxVars>>

\* cycle k goes on with state st after an await: it either stops at the next
\* executeOrder or reaches the end of the loop, stamps and saves the state
Resume(k, st, next) ==
  IF next.at = "order"
    THEN /\ rcycles' = [ rcycles EXCEPT ![k] = next ]
         /\ rstate' = st
         /\ UNCHANGED <<rfile, rtimerSet>>
    ELSE /\ rcycles' = RemoveAt(rcycles, k)
         /\ rstate' = [ st EXCEPT !.lastUpdate = @ + 1 ]
         /\ rfile' = Document(Stringify(rstate'))
         /\ rtimerSet' = TRUE

\* the fetch of cycle k returned no opportunity (or failed): return, no save
RFetchedEmpty(k) ==
  /\ rpc = "running"
  /\ k \in 1..Len(rcycles)
  /\ rcycles[k].at = "fetch"
  /\ rcycles' = RemoveAt(rcycles, k)
  /\ rtimerSet' = TRUE
  /\ UNCHANGED <<rpc, rstate, rfile, rstarted>>
  /\ UNCHANGED <<paperVars, auxVars>>

RFetched(k, opps) ==
  /\ rpc = "running"
  /\ k \in 1..Len(rcycles)
  /\ rcycles[k].at = "fetch"
  /\ Resume(k, rstate, Advance(opps, 1, rstate, now))
  /\ UNCHANGED <<rpc, rstarted>>
  /\ UNCHANGED <<paperVars, auxVars>>

\* executeOrder of cycle k resolved
ROrderDone(k, result) ==
  /\ rpc = "running"
  /\ k \in 1..Len(rcycles)
  /\ rcycles[k].at = "order"
  /\ LET c   == rcycles[k]
         opp == c.opps[c.i]
         st  == AfterOrder(opp, c.check[1], result, rstate)
     IN  Resume(k, st, Advance(c.opps, c.i + 1, st, now))
  /\ UNCHANGED <<rpc, rstarted>>
  /\ UNCHANGED <<paperVars, auxVars>>

\* SIGINT: loadState from the file, isRunning = false, saveState, process.exit
RSignal ==
  /\ rpc = "running"
  /\ rpc' = "exited"
  /\ rfile' = Document(Stringify([ loadStateReal(rfile) EXCEPT !.isRunning = FALSE ]))
  /\ UNCHANGED <<rstate, rcycles, rtimerSet, rstarted>>
  /\ UNCHANGED <<paperVars, auxVars>>

RNext ==
  \/ RStartBot
  \/ RTimerTick
  \/ \E k \in 1..MaxRealCycles : RFetchedEmpty(k)
  \/ \E k \in 1..MaxRealCycles, opps \in ROppLists : RFetched(k, opps)
  \/ \E k \in 1..MaxRealCycles, result \in OrderResults : ROrderDone(k, result)
  \/ RSignal

\* The live bot when every cycle returns before the next tick: fetch and
\* orders take less than pollIntervalMs. A third market is on offer.
SeqOpps ==
  { MkOpp(m, q[1], q[2], s) : m \in Markets \cup { "m3" }, q \in RQuotes, s \in Spots }
SeqOppLists == UNION { [ 1..n -> SeqOpps ] : n \in 1..MaxOpps }

RTimerTickSeq ==
  /\ rcycles = << >>
  /\ RTimerTick

SeqNext ==
  \/ RStartBot
  \/ RTimerTickSeq
  \/ \E k \in 1..MaxRealCycles : RFetchedEmpty(k)
  \/ \E k \in 1..MaxRealCycles, opps \in SeqOppLists : RFetched(k, opps)
  \/ \E k \in 1..MaxRealCycles, result \in OrderResults : ROrderDone(k, result)
  \/ RSignal

RealIdle ==
  /\ rpc = "off"
  /\ rstate = RealInitialState
  /\ rfile = Absent
  /\ rcycles = << >>
  /\ rtimerSet = FALSE
  /\ rstarted = 0

----------------------------------------------------------------------------
(* The entry decision as a function of its arguments *)

\* prices and edges around the thresholds of the entry gates
GateProbs == { 50, 300, 800, 2500, 9300, 9700, 9950 }
GateEdges == { -2000, -500, 0, 500, 800 }
GateSpots == { 1, 2 }
GateDays  == { 0, 1, 3 }

GateOpps ==
  { MkOpp(m, q[1], q[2], sp) :
      m \in Markets,
      q \in { r \in GateProbs \X GateEdges :
                r[1] - r[2] >= 0 /\ r[1] - r[2] <= ProbOne },
      sp \in GateSpots }

\* an open long position of the given size, entered at 0.25 with edge -0.20
MkPosition(id, marketId, size) ==
  [ id |-> id, marketId |-> marketId, expiryDate |-> 3,
    side |-> "long", entryPrice |-> 2500, size |-> size,
    shares |-> (size * ProbOne) \div 2500, entryEdge |-> -2000,
    currentPrice |-> 2500, currentEdge |-> -2000,
    unrealizedPnl |-> 0, status |-> "open", closeReason |-> "none",
    closePrice |-> None, realizedPnl |-> None ]

\* states of the paper bot: no position, a position in m1, and positions in
\* other markets that leave $50 of exposure; a full and a nearly empty balance
GateStates ==
  { [ InitialState EXCEPT !.openPositions = ps, !.currentBalance = b ] :
      ps \in { << >>,
               << MkPosition(1, "m1", 100 * Dollar) >>,
               << MkPosition(1, "m3", 100 * Dollar), MkPosition(2, "m4", 100 * Dollar),
                  MkPosition(3, "m5", 100 * Dollar), MkPosition(4, "m6", 100 * Dollar),
                  MkPosition(5, "m7", 50 * Dollar) >> },
      b \in { 40 * Dollar, 500 * Dollar } }

NoCall ==
  [ op |-> "none", opp |-> None, opps |-> << >>, st |-> None, today |-> 0,
    args |-> << >>, out |-> None ]

FnIdle == call = NoCall

\* the calls of shouldEnterPosition
EnterCalls ==
  { [ NoCall EXCEPT !.op = "shouldEnterPosition", !.opp = Some(o),
                    !.st = Some(s), !.today = d ] :
      o \in GateOpps, s \in GateStates, d \in GateDays }

\* The size of an entry on a finer grid: an edge is a double with many
\* decimals, so here edges are counted in 1/100000 and money in half cents.
FineOne    == 1000 * 100
FineDollar == 2 * 100

FineCONFIG ==
  [ basePositionSize |-> 25 * FineDollar,
    edgeMultiplier   |-> 500 * FineDollar,
    maxPositionSize  |-> 100 * FineDollar,
    maxTotalExposure |-> 500 * FineDollar ]

\* edges of 5%, 5.123%, -7.318% and 16%; no exposure, or $450 of it
FineEdges     == { 5000, 5123, -7318, 16000 }
FineExposures == { 0, 450 * FineDollar }

\* calculatePositionSize of the paper bot on the finer grid
calculatePositionSizeFine(edge, config) ==
  LET absEdge == Abs(edge)
      size    == config.basePositionSize + (absEdge * config.edgeMultiplier) \div FineOne
  IN  MinOf(size, config.maxPositionSize)

\* the exposure check of shouldEnterPosition and the size openPosition gives
\* the position when the check passes
EntrySize(edge, currentExposure, config) ==
  LET positionSize == calculatePositionSizeFine(edge, config)
  IN  IF currentExposure + positionSize > config.maxTotalExposure
        THEN [ entered |-> FALSE, size |-> 0 ]
        ELSE [ entered |-> TRUE, size |-> calculatePositionSizeFine(edge, config) ]

SizeCalls ==
  { [ NoCall EXCEPT !.op = "calculatePositionSize", !.args = <<e, x>> ] :
      e \in FineEdges, x \in FineExposures }


\* shouldEnterPosition(opp, state, CONFIG) returns
ApplyShouldEnter ==
  /\ call.op = "shouldEnterPosition"
  /\ call.out = None
  /\ call' = [ call EXCEPT !.out =
                 Some(shouldEnterPosition(call.opp[1], call.st[1], CONFIG, call.today)) ]
  /\ UNCHANGED <<paperVars, realVars, pipe>>

\* the entry of a position with edge args[1] at exposure args[2]
ApplyEntrySize ==
  /\ call.op = "calculatePositionSize"
  /\ call.out = None
  /\ call' = [ call EXCEPT !.out =
                 Some(EntrySize(call.args[1], call.args[2], FineCONFIG)) ]
  /\ UNCHANGED <<paperVars, realVars, pipe>>


----------------------------------------------------------------------------
(* The opportunity pipeline *)

\* the symbol a market is about: BTC has an options surface, SOL has none
SymbolOf(m) == IF ClaimOf(m).hasDeribit THEN "BTC" ELSE "SOL"
Symbols == { SymbolOf(m) : m \in Markets }

\* what the estimators return for the markets of a symbol at the spot price of
\* the model: the z-score probability, and the options-delta probability when
\* the options chain has a usable strike (0 when it has none)
ZscoreOf(m) == IF ClaimOf(m).hasDeribit THEN 500 ELSE 3500
DeltaProbs  == { 0, 3000 }

\* markets as gamma-api returns them: the question parses as a crypto price
\* target or not, the first outcome price is 0, 0.25 or 1
RawPrices == { 0, 2500, ProbOne }
RawMarkets ==
  { r \in [ id : Markets, parses : { TRUE }, price : RawPrices, dprob : DeltaProbs ] :
      ClaimOf(r.id).hasDeribit \/ r.dprob = 0 }
  \cup { [ id |-> "m1", parses |-> FALSE, price |-> 2500, dprob |-> 0 ] }
RawLists == UNION { [ 1..n -> RawMarkets ] : n \in 0..MaxRaw }
Limits   == 0..MaxLimit
Clocks   == { 0, 1 }

\* a variant that keeps a market whatever its price
ValidPriceAny(p) == TRUE

\* `if (polymarketPrice <= 0 || polymarketPrice >= 1) continue`
ValidPrice(p) == ~ (p <= 0 \/ p >= ProbOne)

\* Array.slice(0, n)
Take(seq, n) == SubSeq(seq, 1, MinOf(n, Len(seq)))

\* the CryptoMarket fetchPolymarketCryptoMarkets pushes for a raw market
ToMarket(r) ==
  LET c == ClaimOf(r.id)
  IN  [ id |-> r.id, crypto |-> SymbolOf(r.id), targetPrice |-> c.targetPrice,
        expiryDate |-> c.expiryDate, betType |-> c.betType,
        direction |-> c.direction, polymarketPrice |-> r.price,
        dprob |-> IF c.hasDeribit THEN r.dprob ELSE 0 ]

fetchPolymarketCryptoMarkets(limit, raw) ==
  LET kept == SelectSeq(raw, LAMBDA r : r.parses /\ ValidPrice(r.price))
  IN  Take([ i \in 1..Len(kept) |-> ToMarket(kept[i]) ], limit)

\* in days instead of years
timeToExpiryYears(expiryDate, fromDate) == MaxOf(0, expiryDate - fromDate)

\* a variant whose thresholds are inclusive
calculateEdgeInclusive(polymarketPrice, modelProbability) ==
  LET edge    == polymarketPrice - modelProbability
      absEdge == Abs(edge)
  IN  [ edge |-> edge,
        signal |-> IF absEdge <= 300 THEN "neutral"
                   ELSE IF edge > 0 THEN "sell" ELSE "buy",
        confidence |-> IF absEdge >= 1000 THEN "high"
                       ELSE IF absEdge >= 500 THEN "medium" ELSE "low" ]

calculateEdge(polymarketPrice, modelProbability) ==
  LET edge    == polymarketPrice - modelProbability
      absEdge == Abs(edge)
  IN  [ edge |-> edge,
        signal |-> IF absEdge < 300 THEN "neutral"
                   ELSE IF edge > 0 THEN "sell" ELSE "buy",
        confidence |-> IF absEdge > 1000 THEN "high"
                       ELSE IF absEdge > 500 THEN "medium" ELSE "low" ]

\* the opportunity the loop of GET builds for a market
ToOpportunity(market, spot) ==
  LET zscoreEdge  == calculateEdge(market.polymarketPrice, ZscoreOf(market.id))
      hasDelta    == market.dprob > 0 /\ market.dprob < ProbOne
      deribitEdge == calculateEdge(market.polymarketPrice, market.dprob)
      primaryEdge == IF hasDelta THEN deribitEdge ELSE zscoreEdge
  IN  [ id |-> market.id, polymarketProb |-> market.polymarketPrice,
        spot |-> spot, betType |-> market.betType,
        direction |-> market.direction, targetPrice |-> market.targetPrice,
        expiryDate |-> market.expiryDate,
        zscoreProb    |-> ZscoreOf(market.id),
        edgeVsZscore  |-> zscoreEdge.edge,
        deribitProb   |-> IF hasDelta THEN Some(market.dprob) ELSE None,
        edgeVsDeribit |-> IF hasDelta THEN Some(deribitEdge.edge) ELSE None,
        signal |-> primaryEdge.signal, confidence |-> primaryEdge.confidence ]

\* step 5 of GET: markets without a price or past their expiry are skipped
RECURSIVE BuildOpportunities(_, _, _)
BuildOpportunities(markets, prices, clock) ==
  IF markets = << >> THEN << >>
  ELSE LET market == markets[1]
           rest   == BuildOpportunities(Tail(markets), prices, clock)
       IN  IF market.crypto \notin DOMAIN prices THEN rest
           ELSE IF prices[market.crypto] <= 0 THEN rest
           ELSE IF timeToExpiryYears(market.expiryDate, clock) <= 0 THEN rest
           ELSE << ToOpportunity(market, prices[market.crypto]) >> \o rest

\* opportunities.sort((a, b) => |edge of b| - |edge of a|), a stable sort
RECURSIVE InsertByEdge(_, _)
InsertByEdge(opp, sorted) ==
  IF sorted = << >> THEN << opp >>
  ELSE IF Abs(EffectiveEdge(sorted[1])) >= Abs(EffectiveEdge(opp))
         THEN << sorted[1] >> \o InsertByEdge(opp, Tail(sorted))
         ELSE << opp >> \o sorted

RECURSIVE SortByEdge(_)
SortByEdge(opps) ==
  IF opps = << >> THEN << >>
  ELSE InsertByEdge(opps[Len(opps)], SortByEdge(SubSeq(opps, 1, Len(opps) - 1)))

\* the answers of CoinGecko to /api/crypto-prices: prices for some of the
\* symbols, a status that is not ok, or no answer at all (status 0)
PriceTables  == UNION { [ S -> { 1 } ] : S \in SUBSET Symbols }
NoPrices     == CHOOSE t \in PriceTables : DOMAIN t = { }
GeckoAnswers ==
  { [ status |-> 200, prices |-> t ] : t \in PriceTables }
  \cup { [ status |-> st, prices |-> NoPrices ] : st \in { 0, 429, 503 } }

\* GET /api/crypto-prices: 429 is passed on, any other failure becomes 500
cryptoPrices(gecko) ==
  IF gecko.status = 200 THEN [ status |-> 200, prices |-> gecko.prices ]
  ELSE IF gecko.status = 429 THEN [ status |-> 429, prices |-> NoPrices ]
  ELSE [ status |-> 500, prices |-> NoPrices ]

\* what the fetch of /api/crypto-prices gives GET /api/crypto-arbitrage: the
\* response of the route, or an exception when the route cannot be reached
PriceReplies ==
  { [ thrown |-> FALSE, gecko |-> g, response |-> cryptoPrices(g) ] : g \in GeckoAnswers }
  \cup { [ thrown |-> TRUE, gecko |-> [ status |-> 0, prices |-> NoPrices ],
           response |-> [ status |-> 0, prices |-> NoPrices ] ] }

OkResponse(opportunities, total) ==
  [ status |-> 200, opportunities |-> opportunities, total |-> total,
    error |-> None ]

ErrorResponse ==
  [ status |-> 500, opportunities |-> << >>, total |-> 0,
    error |-> Some("Failed to calculate crypto arbitrage") ]

\* steps 3 to 5 of GET and the sort, once the price request has returned
Respond(markets, reply, clock) ==
  IF reply.thrown THEN ErrorResponse
  ELSE LET prices == IF reply.response.status = 200 THEN reply.response.prices
                     ELSE NoPrices
       IN  OkResponse(SortByEdge(BuildOpportunities(markets, prices, clock)),
                      Len(markets))

\* fetchArbitrageData of the bot: a response that is not ok throws, and the
\* catch block returns the empty list
fetchArbitrageData(response) ==
  IF response.status = 200 THEN response.opportunities ELSE << >>

\* runBotCycle on what fetchArbitrageData returned, before saveState
CycleOutcome(opps, st, today, stamp) ==
  IF opps = << >> THEN st ELSE CycleBody(opps, st, today, stamp)

NoRequest ==
  [ at |-> "idle", limit |-> 0, clock |-> 0, raw |-> << >>, markets |-> << >>,
    reply |-> None, response |-> None, bot |-> None, delay |-> 0 ]

PipeIdle == pipe = NoRequest

\* GET /api/crypto-arbitrage?limit=n up to the price request; with no market
\* left the handler answers at once
PipeRequest(limit, raw, clock) ==
  /\ pipe.at = "idle"
  /\ LET markets == fetchPolymarketCryptoMarkets(limit, raw)
     IN  pipe' = [ pipe EXCEPT
                     !.limit = limit, !.clock = clock, !.raw = raw,
                     !.markets = markets,
                     !.at = IF markets = << >> THEN "done" ELSE "prices",
                     !.response = IF markets = << >>
                                    THEN Some(OkResponse(<< >>, 0)) ELSE None ]
  /\ UNCHANGED <<paperVars, realVars, call>>

\* the price request returns and the handler answers
PipePrices(reply) ==
  /\ pipe.at = "prices"
  /\ pipe' = [ pipe EXCEPT
                 !.at = "done", !.reply = Some(reply),
                 !.response = Some(Respond(pipe.markets, reply, pipe.clock)) ]
  /\ UNCHANGED <<paperVars, realVars, call>>

\* the paper bot, freshly started, runs the cycle that made the request; the
\* timer set by setInterval fires again after pollIntervalMs
BotCycle ==
  /\ pipe.at = "done"
  /\ pipe' = [ pipe EXCEPT
                 !.at = "cycled",
                 !.bot = Some(CycleOutcome(fetchArbitrageData(pipe.response[1]),
                                           InitialState, pipe.clock, 1)),
                 !.delay = CONFIG.pollIntervalMs ]
  /\ UNCHANGED <<paperVars, realVars, call>>

PipeInit == pipe = NoRequest

----------------------------------------------------------------------------
(* The edge classifier as a function of its arguments *)

\* probabilities whose differences lie on and next to the thresholds
ClassifierProbs ==
  { 0, 4000, 4499, 4500, 4501, 4699, 4700, 4701, 5000, 5299, 5300, 5301,
    5500, 5501, 5999, 6000, 6001, ProbOne }

EdgeCalls ==
  { [ NoCall EXCEPT !.op = "calculateEdge", !.args = <<p, m>> ] :
      p \in ClassifierProbs, m \in ClassifierProbs }

\* calculateEdge(polymarketPrice, modelProbability) returns
ApplyCalculateEdge ==
  /\ call.op = "calculateEdge"
  /\ call.out = None
  /\ call' = [ call EXCEPT !.out = Some(calculateEdge(call.args[1], call.args[2])) ]
  /\ UNCHANGED <<paperVars, realVars, pipe>>

PipeNext ==
  \/ /\ pipe.at = "idle"
     /\ \E limit \in Limits, raw \in RawLists, clock \in Clocks :
          PipeRequest(limit, raw, clock)
  \/ /\ pipe.at = "prices"
     /\ \E reply \in PriceReplies : PipePrices(reply)
  \/ BotCycle

----------------------------------------------------------------------------
(* Specifications *)

Init == PaperInit /\ RealIdle /\ FnIdle /\ PipeIdle

Spec == Init /\ [][Next]_vars

RInit == RealInit /\ PaperIdle /\ FnIdle /\ PipeIdle

RealSpec == RInit /\ [][RNext]_vars

----------------------------------------------------------------------------
(* A cycle of the paper bot as a function of the state and the fetched list *)

\* the states after a first cycle that fetched one opportunity on day 0
HeldStates == { CycleBody(<< o >>, InitialState, 0, 1) : o \in Opps }

CycleDays == 0..MaxDay

CycleCalls ==
  { [ NoCall EXCEPT !.op = "runBotCycle", !.opps = opps, !.st = Some(s),
                    !.today = d ] :
      opps \in OppLists, s \in HeldStates, d \in CycleDays }

\* runBotCycle(state) with the fetched list call.opps, up to saveState
ApplyCycle ==
  /\ call.op = "runBotCycle"
  /\ call.out = None
  /\ call' = [ call EXCEPT !.out =
                 Some(CycleOutcome(call.opps, call.st[1], call.today, 2)) ]
  /\ UNCHANGED <<paperVars, realVars, pipe>>

FnInit == call \in EnterCalls \cup SizeCalls \cup EdgeCalls \cup CycleCalls

FnNext ==
  \/ ApplyShouldEnter
  \/ ApplyEntrySize
  \/ ApplyCalculateEdge
  \/ ApplyCycle

FnSpecInit == FnInit /\ PaperIdle /\ RealIdle /\ PipeIdle

FnSpec == FnSpecInit /\ [][FnNext]_vars

RealSeqSpec == RInit /\ [][SeqNext]_vars

PipeSpecInit == PipeInit /\ PaperIdle /\ RealIdle /\ FnIdle

PipeSpec == PipeSpecInit /\ [][PipeNext]_vars

----------------------------------------------------------------------------
(* Properties *)

OpenIds(s)   == { s.openPositions[i].id : i \in 1..Len(s.openPositions) }
ClosedIds(s) == { s.closedPositions[i].id : i \in 1..Len(s.closedPositions) }

\* the states a property of the persisted state speaks about: the bot's state
\* and the document in the state file
Persisted == IF file.kind = "doc" THEN { Parse(file.doc) } ELSE { }

Balanced(s) ==
  s.currentBalance + SumSize(s.openPositions) = s.startingBalance + s.totalPnl

\* C1: in the paper bot, currentBalance plus the sizes of the open positions
\* equals startingBalance plus totalPnl, in memory and in every saved document.
C1_BalanceIdentity ==
  /\ Balanced(state)
  /\ \A s \in Persisted : Balanced(s)

\* a saved document with an open position and a position closed at a profit or loss
C1_Witness ==
  \E s \in Persisted :
    /\ Len(s.openPositions) > 0
    /\ Len(s.closedPositions) > 0
    /\ s.totalPnl # 0
    /\ s.currentBalance # s.startingBalance

OnePerMarket(positions) ==
  \A i, j \in 1..Len(positions) :
    positions[i].marketId = positions[j].marketId => i = j

\* C2: in the paper bot no two open positions share a marketId.
C2_OnePositionPerMarket ==
  /\ OnePerMarket(state.openPositions)
  /\ \A s \in Persisted : OnePerMarket(s.openPositions)

\* two markets are open, one of them re-entered by the open trade that follows
\* the close trade of the earlier position in the same market
C2_Witness ==
  /\ Len(state.openPositions) = 2
  /\ \E i \in 1..Len(state.closedPositions), j \in 1..Len(state.openPositions) :
       LET c == state.closedPositions[i]
           o == state.openPositions[j]
       IN  /\ c.marketId = o.marketId
           /\ o.id > 1
           /\ state.trades[o.id - 1].action = "close"
           /\ state.trades[o.id - 1].positionId = c.id
           /\ o.side # c.side

\* C3: the sizes of the open positions never add up to more than
\* maxTotalExposure, in the paper bot and in the live bot.
C3_ExposureCap ==
  /\ SumSize(state.openPositions) <= CONFIG.maxTotalExposure
  /\ SumSize(rstate.openPositions) <= RCONFIG.maxTotalExposure

\* C4: currentBalance of the paper bot is never negative, in memory and in
\* every saved document.
C4_BalanceNonNegative ==
  /\ state.currentBalance >= 0
  /\ \A s \in Persisted : s.currentBalance >= 0

\* the whole balance is staked and a position has been closed at a total loss
C4_Witness ==
  \E s \in Persisted :
    /\ s.currentBalance = 0
    /\ \E i \in 1..Len(s.closedPositions) :
         s.closedPositions[i].realizedPnl = Some(0 - s.closedPositions[i].size)

\* C5: at most one runBotCycle is in flight at any time, in either bot.
C5_NoOverlap ==
  /\ inflight <= 1
  /\ Len(rcycles) <= 1

CloseTrades(s, id) ==
  { k \in 1..Len(s.trades) :
      s.trades[k].action = "close" /\ s.trades[k].positionId = id }

ClosedOnce(s) ==
  /\ OpenIds(s) \cap ClosedIds(s) = { }
  /\ \A i \in 1..Len(s.closedPositions) :
       /\ s.closedPositions[i].status \in { "closed", "expired" }
       /\ Cardinality(CloseTrades(s, s.closedPositions[i].id)) = 1
       /\ \A j \in 1..Len(s.closedPositions) :
            s.closedPositions[i].id = s.closedPositions[j].id => i = j
  /\ \A i \in 1..Len(s.openPositions) :
       /\ s.openPositions[i].status = "open"
       /\ CloseTrades(s, s.openPositions[i].id) = { }

\* C6: a position is closed at most once and stays closed: a closed position
\* has exactly one close trade, is not among the open positions, and its
\* record in closedPositions never changes or disappears.
C6_CloseOnce ==
  /\ [] ClosedOnce(state)
  /\ [][ /\ Len(state'.closedPositions) >= Len(state.closedPositions)
         /\ \A i \in 1..Len(state.closedPositions) :
              state'.closedPositions[i] = state.closedPositions[i] ]_vars

\* a market is open again while its earlier position lies in closedPositions
\* and a cycle has run since that position was closed
C6_Witness ==
  \E i \in 1..Len(state.closedPositions), j \in 1..Len(state.openPositions) :
    LET c == state.closedPositions[i]
        o == state.openPositions[j]
    IN  /\ c.marketId = o.marketId
        /\ \E k \in CloseTrades(state, c.id) : k + 1 < o.id

\* C7: every cycle that has returned has stamped lastUpdate and saved the
\* state, also when the opportunity list was empty.
C7_EveryCycleSaves ==
  (pc = "running" /\ writing = None /\ cyclesDone > 0)
    => (file.kind = "doc" /\ file.doc.lastUpdate = cyclesDone)

\* C8: after a shutdown signal the state file holds the loop's latest state
\* with isRunning = false.
C8_ShutdownFlush ==
  /\ pc = "exited" =>
       /\ file.kind = "doc"
       /\ file.doc = Stringify([ state EXCEPT !.isRunning = FALSE ])
  /\ rpc = "exited" =>
       /\ rfile.kind = "doc"
       /\ rfile.doc = Stringify([ rstate EXCEPT !.isRunning = FALSE ])

\* C9: a reader of the state file never finds it empty or partly written:
\* while a save is in progress its loadState still returns a document.
C9_AtomicSave ==
  /\ file.kind # "empty"
  /\ writing # None => StatusLoadState(file) # None

\* C10: a bot that finds a corrupt state file does not run, and a corrupt
\* state file is never overwritten.
C10_CorruptFileKept ==
  /\ [] (file.kind = "corrupt" => pc = "init")
  /\ [][ file.kind = "corrupt" => file'.kind = "corrupt" ]_vars

\* C11: the state file is written by the trading loop only: every change of
\* the file is a step of a save of the bot (its start or its completion), and
\* no document written by another component is replaced by the loop's save.
C11_SoleWriter ==
  [][ file' # file => (writing # None \/ writing' # None) ]_vars

\* C12: a position that is closed because its expiry passed while its market
\* was absent from the list ends with status expired, closeReason expired and
\* closePrice equal to the price it last knew; a position closed by an exit
\* rule ends with status closed.
C12_ExpiredStatus ==
  /\ [] (\A i \in 1..Len(state.closedPositions) :
           LET c == state.closedPositions[i]
           IN  /\ c.closeReason = "expired" => c.status = "expired"
               /\ c.closeReason = "edge_aligned" => c.status = "closed")
  /\ [][ \A i \in 1..Len(state.openPositions),
            j \in 1..Len(state'.closedPositions) :
            (/\ state'.closedPositions[j].id = state.openPositions[i].id
             /\ state'.closedPositions[j].closeReason = "expired")
              => state'.closedPositions[j].closePrice
                   = Some(state.openPositions[i].currentPrice) ]_vars

OrderFailed == [ success |-> FALSE, filledPrice |-> 0 ]

\* C13: in the live bot an order attempt that fails changes neither the open
\* positions nor the exposure nor the realised profit, and the cycle goes on
\* with a later opportunity of its list or ends.
C13_FailedOrderNoMutation ==
  [][ \A k \in 1..MaxRealCycles :
        ROrderDone(k, OrderFailed) =>
          /\ rstate'.openPositions   = rstate.openPositions
          /\ rstate'.closedPositions = rstate.closedPositions
          /\ rstate'.currentExposure = rstate.currentExposure
          /\ rstate'.totalPnl        = rstate.totalPnl
          /\ \/ /\ Len(rcycles') = Len(rcycles)
                /\ rcycles'[k].at = "order"
                /\ rcycles'[k].opps = rcycles[k].opps
                /\ rcycles'[k].i > rcycles[k].i
             \/ /\ Len(rcycles') = Len(rcycles) - 1
                /\ \A j \in (rcycles[k].i + 1)..Len(rcycles[k].opps) :
                     ~ shouldEnterPositionReal(rcycles[k].opps[j], rstate,
                                               RCONFIG, now).shouldEnter ]_vars

\* the only cycle so far waits for the order of its second opportunity with
\* no position open, although the first opportunity passes the entry check:
\* the order for the first one has failed
C13_Witness ==
  /\ rstarted = 1
  /\ Len(rcycles) = 1
  /\ rcycles[1].at = "order"
  /\ rcycles[1].i = 2
  /\ rstate.openPositions = << >>
  /\ shouldEnterPositionReal(rcycles[1].opps[1], rstate, RCONFIG, now).shouldEnter

RECURSIVE SumRealized(_)
SumRealized(ps) ==
  IF ps = << >> THEN 0 ELSE ps[1].realizedPnl[1] + SumRealized(Tail(ps))

\* what the trades of a log have debited and credited, one after the other
RECURSIVE NetOfTrades(_)
NetOfTrades(ts) ==
  IF ts = << >> THEN 0
  ELSE NetOfTrades(Tail(ts))
         + (IF ts[1].action = "open" THEN 0 - ts[1].size
            ELSE ts[1].size + ts[1].pnl[1])

CloseAccounting(s) ==
  /\ \A i \in 1..Len(s.closedPositions) :
       LET c == s.closedPositions[i]
           p == c.closePrice[1]
       IN  c.realizedPnl =
             Some(IF c.side = "long"
                    THEN (c.shares * (p - c.entryPrice)) \div ProbOne
                    ELSE (c.shares * (c.entryPrice - p)) \div ProbOne)
  /\ s.totalPnl = SumRealized(s.closedPositions)
  /\ s.currentBalance = s.startingBalance + NetOfTrades(s.trades)
  /\ s.winningTrades =
       Cardinality({ i \in 1..Len(s.closedPositions) :
                       s.closedPositions[i].realizedPnl[1] > 0 })
  /\ s.losingTrades =
       Cardinality({ i \in 1..Len(s.closedPositions) :
                       s.closedPositions[i].realizedPnl[1] < 0 })

\* C17: a close at price p credits size + pnl to currentBalance and adds pnl
\* to totalPnl, with pnl = shares * (p - entryPrice) for a long position and
\* shares * (entryPrice - p) for a short one; a profit counts one win, a loss
\* one loss, a pnl of zero neither.
C17_CloseAccounting ==
  /\ CloseAccounting(state)
  /\ \A s \in Persisted : CloseAccounting(s)

\* a long and a short position have been closed, one at a profit, one at a
\* loss and one at neither
C17_Witness ==
  \E s \in Persisted :
    /\ s.winningTrades > 0
    /\ s.losingTrades > 0
    /\ Len(s.closedPositions) > s.winningTrades + s.losingTrades
    /\ \E i, j \in 1..Len(s.closedPositions) :
         s.closedPositions[i].side = "long" /\ s.closedPositions[j].side = "short"

SizedAndSided(s) ==
  \A i \in 1..Len(s.openPositions) :
    LET p == s.openPositions[i]
    IN  /\ p.size <= CONFIG.maxPositionSize
        /\ p.side = "short" <=> p.entryEdge > 0
        /\ p.side = "long"  <=> p.entryEdge < 0

\* C18: every open position of the paper bot has a size of at most
\* maxPositionSize, is short exactly when its entryEdge is positive and long
\* exactly when its entryEdge is negative.
C18_SizeAndSide ==
  /\ SizedAndSided(state)
  /\ \A s \in Persisted : SizedAndSided(s)

\* a saved document holds a long position whose size was cut to
\* maxPositionSize and a short position below the cap
C18_Witness ==
  \E s \in Persisted :
    \E i, j \in 1..Len(s.openPositions) :
      /\ s.openPositions[i].side = "long"
      /\ s.openPositions[i].size = CONFIG.maxPositionSize
      /\ CONFIG.basePositionSize
           + (Abs(s.openPositions[i].entryEdge) * CONFIG.edgeMultiplier) \div ProbOne
           > CONFIG.maxPositionSize
      /\ s.openPositions[j].side = "short"
      /\ s.openPositions[j].size < CONFIG.maxPositionSize

\* the trades a step appends to the log
NewTrades == SubSeq(state'.trades, Len(state.trades) + 1, Len(state'.trades))

\* the positions a step moves to closedPositions
NewClosed ==
  SubSeq(state'.closedPositions, Len(state.closedPositions) + 1,
         Len(state'.closedPositions))

GatesPass(opp, st, today) ==
  LET edge      == IF opp.edgeVsDeribit # None THEN opp.edgeVsDeribit[1]
                   ELSE opp.edgeVsZscore
      modelProb == IF opp.deribitProb # None THEN opp.deribitProb[1]
                   ELSE opp.zscoreProb
      poly      == opp.polymarketProb
      size      == calculatePositionSize(edge, CONFIG)
  IN  /\ poly > 100 /\ poly < 9900
      /\ ~ (/\ opp.betType = "one-touch"
            /\ \/ opp.direction = "below" /\ opp.spot <= opp.targetPrice
               \/ opp.direction = "above" /\ opp.spot >= opp.targetPrice)
      /\ ~ (modelProb > 9000 /\ poly > 9000)
      /\ ~ (modelProb < 1000 /\ poly < 1000)
      /\ Abs(edge) >= CONFIG.minEdgeToEnter
      /\ opp.expiryDate - today >= CONFIG.minTimeToExpiry
      /\ \A i \in 1..Len(st.openPositions) : st.openPositions[i].marketId # opp.id
      /\ SumSize(st.openPositions) + size <= CONFIG.maxTotalExposure
      /\ size <= st.currentBalance

\* C20: shouldEnterPosition of the paper bot says enter exactly when the eight
\* gates pass, the first of them being polymarketProb inside (0.01, 0.99).
C20_EntryGates ==
  (call.op = "shouldEnterPosition" /\ call.out # None) =>
    (call.out[1].shouldEnter <=> GatesPass(call.opp[1], call.st[1], call.today))

\* C14: when the spot-price endpoint answers 429, the trading cycle changes
\* neither positions nor balance, records lastError = rate-limited, and the
\* next cycle comes after twice the poll interval.
C14_RateLimited ==
  (/\ pipe.at = "cycled"
   /\ pipe.reply # None
   /\ ~ pipe.reply[1].thrown
   /\ pipe.reply[1].gecko.status = 429) =>
    /\ pipe.bot[1].openPositions  = InitialState.openPositions
    /\ pipe.bot[1].currentBalance = InitialState.currentBalance
    /\ pipe.bot[1].trades         = InitialState.trades
    /\ pipe.bot[1].lastError      = Some("rate-limited")
    /\ pipe.delay = 2 * CONFIG.pollIntervalMs

\* the price request gave no price for any market of the request
PriceOutage ==
  /\ pipe.reply # None
  /\ \/ pipe.reply[1].thrown
     \/ pipe.reply[1].response.status # 200
     \/ \A i \in 1..Len(pipe.markets) :
          pipe.markets[i].crypto \notin DOMAIN pipe.reply[1].response.prices

\* C15: a complete spot-price outage makes the pipeline fail with the error
\* prices-unavailable instead of answering with a successful empty result.
C15_PricesUnavailable ==
  (pipe.response # None /\ PriceOutage) =>
    /\ pipe.response[1].status # 200
    /\ pipe.response[1].error = Some("prices-unavailable")

\* C16: every opportunity of a response has a polymarketProb strictly between
\* 0 and 1 and an expiry strictly after the time of the computation, and a
\* response to a request with limit N holds at most N opportunities.
C16_OnlyLiveMarkets ==
  pipe.response # None =>
    LET opps == pipe.response[1].opportunities
    IN  /\ Len(opps) <= pipe.limit
        /\ \A i \in 1..Len(opps) :
             /\ opps[i].polymarketProb > 0
             /\ opps[i].polymarketProb < ProbOne
             /\ opps[i].expiryDate > pipe.clock

\* a request with limit 1 whose market list holds a market priced at 0 or 1
\* followed by two live markets, and the answer holds one opportunity
C16_Witness ==
  /\ pipe.response # None
  /\ pipe.limit = 1
  /\ pipe.clock = 0
  /\ Len(pipe.raw) = 3
  /\ \E i, j, k \in 1..3 :
       /\ pipe.raw[i].parses /\ pipe.raw[i].price \in { 0, ProbOne }
       /\ pipe.raw[j].parses /\ pipe.raw[j].price = 2500 /\ i < j
       /\ pipe.raw[k].parses /\ pipe.raw[k].price = 2500 /\ j < k
       /\ pipe.raw[j].id # pipe.raw[k].id
  /\ Len(pipe.response[1].opportunities) = 1


\* the exit conditions on a refreshed edge: aligned, or flipped and significant
ExitDue(side, currentEdge, config) ==
  \/ Abs(currentEdge) < config.maxEdgeToExit
  \/ /\ (IF currentEdge > 0 THEN "short" ELSE "long") # side
     /\ Abs(currentEdge) >= config.minEdgeToEnter

\* the decision of the paper bot for a position of either side in the market
\* of an opportunity
ExitDecisionPaper ==
  \A o \in GateOpps, side \in { "long", "short" } :
    LET position == [ MkPosition(1, o.id, 100 * Dollar) EXCEPT !.side = side ]
        d == shouldExitPosition(position, Some(o), CONFIG, 0)
    IN  /\ d.shouldExit = ExitDue(side, EffectiveEdge(o), CONFIG)
        /\ d.shouldExit => d.reason = "edge_aligned"

\* a live cycle that fetched opps and went through them to its end has closed
\* the open positions whose exit is due and kept the others
ExitDecisionLive ==
  \A k \in 1..MaxRealCycles, opps \in ROppLists :
    (RFetched(k, opps) /\ Len(rcycles') < Len(rcycles)) =>
      \A i \in 1..Len(rstate.openPositions) :
        LET position == rstate.openPositions[i]
            o == FindOpp(opps, position.marketId)
        IN  o # None =>
              ( ExitDue(position.side, EffectiveEdge(o[1]), RCONFIG)
                  <=> position \notin { rstate'.openPositions[j] :
                                          j \in 1..Len(rstate'.openPositions) } )

\* C21: a position whose market is in the opportunity list is closed, with
\* reason edge-aligned, exactly when the absolute current edge is below
\* maxEdgeToExit or the edge implies the other side and is at least
\* minEdgeToEnter; otherwise it stays open. In the paper and in the live loop.
C21_ExitDecision == [][ExitDecisionPaper /\ ExitDecisionLive]_vars


\* an amount in half cents rounded to whole cents, halves upwards
RoundHalfCents(x) == ((x + 1) \div 2) * 2

\* C22: the notional of a newly opened position is the least of
\* maxPositionSize, the remaining exposure and basePositionSize plus
\* |edge| * edgeMultiplier, rounded to cents.
C22_NotionalFormula ==
  (call.op = "calculatePositionSize" /\ call.out # None /\ call.out[1].entered) =>
    LET edge      == call.args[1]
        remaining == FineCONFIG.maxTotalExposure - call.args[2]
        linear    == FineCONFIG.basePositionSize
                       + (Abs(edge) * FineCONFIG.edgeMultiplier) \div FineOne
    IN  call.out[1].size =
          RoundHalfCents(MinOf(MinOf(FineCONFIG.maxPositionSize, remaining), linear))


\* shares = notional / effectivePrice
SharesFromEffectivePrice(position) ==
  LET effectivePrice == IF position.side = "long" THEN position.entryPrice
                        ELSE ProbOne - position.entryPrice
  IN  position.shares = (position.size * ProbOne) \div effectivePrice

\* C23: every position opened by the paper or the live loop holds
\* notional / effectivePrice shares, where effectivePrice is the entry price
\* of a long position and one minus the entry price of a short position.
C23_SharesOfPosition ==
  /\ \A i \in 1..Len(state.openPositions) :
       SharesFromEffectivePrice(state.openPositions[i])
  /\ \A i \in 1..Len(rstate.openPositions) :
       SharesFromEffectivePrice(rstate.openPositions[i])


\* max(|edgeDelta|, |edgeZ|), and |edgeZ| alone without an options-delta estimate
MaxAbsEdge(opp) ==
  IF opp.edgeVsDeribit = None THEN Abs(opp.edgeVsZscore)
  ELSE MaxOf(Abs(opp.edgeVsDeribit[1]), Abs(opp.edgeVsZscore))

\* C24: the opportunities of a response are in descending order of
\* max(|edgeDelta|, |edgeZ|).
C24_SortedByMaxEdge ==
  pipe.response # None =>
    LET opps == pipe.response[1].opportunities
    IN  \A i \in 1..(Len(opps) - 1) : MaxAbsEdge(opps[i]) >= MaxAbsEdge(opps[i + 1])


\* C25: the classifier returns edge = polymarketProb - modelProb; the signal
\* is neutral when |edge| < 0.03, sell when the edge is positive and buy
\* otherwise; the confidence is high when |edge| > 0.10, medium when
\* |edge| > 0.05 and low otherwise, so 0.10 is medium and 0.05 is low.
C25_EdgeClassifier ==
  (call.op = "calculateEdge" /\ call.out # None) =>
    LET e == call.args[1] - call.args[2]
        r == call.out[1]
    IN  /\ r.edge = e
        /\ r.signal = "neutral" <=> (-300 < e /\ e < 300)
        /\ r.signal = "sell"    <=> e >= 300
        /\ r.signal = "buy"     <=> e <= -300
        /\ r.confidence = "high"   <=> (e > 1000 \/ e < -1000)
        /\ r.confidence = "medium" <=> ((500 < e /\ e <= 1000) \/ (-1000 <= e /\ e < -500))
        /\ r.confidence = "low"    <=> (-500 <= e /\ e <= 500)

\* the classifier has returned for an edge of exactly 0.10
C25_Witness ==
  /\ call.op = "calculateEdge"
  /\ call.out # None
  /\ call.args[1] - call.args[2] = 1000
  /\ call.out[1].confidence = "medium"
  /\ call.out[1].signal = "sell"


\* no opportunity of the list is about the market
MarketAbsent(opps, marketId) == \A i \in 1..Len(opps) : opps[i].id # marketId

\* the open positions of a state that a cycle with the list has to leave alone
Bystanders(st, opps, today) ==
  { st.openPositions[i] : i \in { j \in 1..Len(st.openPositions) :
        /\ MarketAbsent(opps, st.openPositions[j].marketId)
        /\ ~ (st.openPositions[j].expiryDate < today) } }

\* C26: a cycle with a non-empty list leaves an open position whose market is
\* not in the list and whose expiry has not passed as it was: it stays among
\* the open positions with the same fields, it is not among the closed ones,
\* and no trade is logged for it.
C26_AbsentMarketUntouched ==
  (call.op = "runBotCycle" /\ call.out # None /\ call.opps # << >>) =>
    LET before == call.st[1]
        after  == call.out[1]
    IN  \A position \in Bystanders(before, call.opps, call.today) :
          /\ \E i \in 1..Len(after.openPositions) : after.openPositions[i] = position
          /\ position.id \notin ClosedIds(after)
          /\ \A k \in (Len(before.trades) + 1)..Len(after.trades) :
               after.trades[k].positionId # position.id

\* a cycle has run with a list that lacks the market of an open, unexpired
\* position and has opened a position in the other market
C26_Witness ==
  /\ call.op = "runBotCycle"
  /\ call.out # None
  /\ call.opps # << >>
  /\ Bystanders(call.st[1], call.opps, call.today) # { }
  /\ Len(call.out[1].openPositions) = 2
  /\ Len(call.out[1].trades) = Len(call.st[1].trades) + 1


\* C27: in the live loop no two open positions share a marketId and
\* currentExposure never exceeds maxTotalExposure, also when a timer tick
\* starts a cycle while an earlier one awaits executeOrder.
C27_LiveRaceFree ==
  /\ OnePerMarket(rstate.openPositions)
  /\ rstate.currentExposure <= RCONFIG.maxTotalExposure


OpenTrades(s, id) ==
  { k \in 1..Len(s.trades) :
      s.trades[k].action = "open" /\ s.trades[k].positionId = id }

TradeLogConsistent(s) ==
  /\ s.totalTrades = Len(s.trades)
  /\ \A i \in 1..Len(s.openPositions) :
       LET id == s.openPositions[i].id
       IN  /\ Cardinality(OpenTrades(s, id)) = 1
           /\ CloseTrades(s, id) = { }
  /\ \A i \in 1..Len(s.closedPositions) :
       LET id == s.closedPositions[i].id
       IN  /\ Cardinality(OpenTrades(s, id)) = 1
           /\ Cardinality(CloseTrades(s, id)) = 1
           /\ \A k \in OpenTrades(s, id), l \in CloseTrades(s, id) : k < l
  /\ \A k \in 1..Len(s.trades) :
       s.trades[k].pnl # None => s.trades[k].action = "close"

\* C28: the trade log of the paper bot is append-only and agrees with the
\* positions: totalTrades is its length, an open position has exactly one
\* open trade and no close trade, a closed position has exactly one open
\* trade followed by exactly one close trade, and only close trades carry pnl.
C28_TradeLog ==
  /\ [] TradeLogConsistent(state)
  /\ [][ /\ Len(state'.trades) >= Len(state.trades)
         /\ \A k \in 1..Len(state.trades) : state'.trades[k] = state.trades[k] ]_vars

\* four trades are logged: two positions are open and one is closed
C28_Witness ==
  /\ Len(state.trades) = 4
  /\ Len(state.openPositions) = 2
  /\ Len(state.closedPositions) = 1
  /\ state.trades[4].action = "open"


\* the closed positions entered strictly between 0 and 1 and closed at a
\* price from 0 to 1
PricedClosed(s) ==
  { s.closedPositions[i] : i \in { j \in 1..Len(s.closedPositions) :
        LET c == s.closedPositions[j]
        IN  /\ 0 < c.entryPrice /\ c.entryPrice < ProbOne
            /\ c.closePrice # None
            /\ 0 <= c.closePrice[1] /\ c.closePrice[1] <= ProbOne } }

\* C30: a paper position never loses more than its notional: realizedPnl is
\* at least -size for long and short positions, so size + pnl, the amount
\* credited on close, is never negative.
C30_LossBounded ==
  \A s \in { state } \cup Persisted :
    \A c \in PricedClosed(s) :
      /\ c.realizedPnl # None
      /\ c.realizedPnl[1] >= - c.size
      /\ c.size + c.realizedPnl[1] >= 0

\* a short position closed at price 1 and a long position closed at price 0:
\* both lost their whole notional
C30_Witness ==
  \E c, d \in PricedClosed(state) :
    /\ c.side = "short" /\ c.closePrice = Some(ProbOne) /\ c.realizedPnl = Some(- c.size)
    /\ d.side = "long"  /\ d.closePrice = Some(0)       /\ d.realizedPnl = Some(- d.size)


\* C29: when the cycles of the live loop do not overlap, currentExposure is
\* the sum of the sizes of the open positions after every cycle, neither it
\* nor the open positions ever shrink, and no position is opened once less
\* than $0.50 of exposure remains.
C29_ExposureLedger ==
  /\ [] ( /\ rcycles = << >> =>
               rstate.currentExposure = SumSize(rstate.openPositions)
          /\ rfile.kind = "doc" =>
               Parse(rfile.doc).currentExposure = SumSize(Parse(rfile.doc).openPositions) )
  /\ [][ /\ rstate'.currentExposure >= rstate.currentExposure
         /\ Len(rstate'.openPositions) >= Len(rstate.openPositions)
         /\ \A i \in 1..Len(rstate.openPositions) :
              rstate'.openPositions[i] = rstate.openPositions[i]
         /\ Len(rstate'.openPositions) > Len(rstate.openPositions) =>
              RCONFIG.maxTotalExposure - rstate.currentExposure >= MinTrade ]_vars

\* three cycles with opportunities have returned; a position of $5.00, one of
\* $2.02 and one cut down to the remaining $2.98 use up the exposure
C29_Witness ==
  /\ rcycles = << >>
  /\ rstate.lastUpdate = 3
  /\ rstate.currentExposure = RCONFIG.maxTotalExposure
  /\ Len(rstate.openPositions) = 3
  /\ rstate.openPositions[3].size = 2980

====
